---- MODULE Spec2Model ----
(***************************************************************************)
(* Model of src/main.py: a Telegram relay bot.                             *)
(*                                                                         *)
(* Session registry: the in-memory sets pending_requests, active_sessions  *)
(* and banned_users_cache, their durable SQLite mirrors, and state_lock.   *)
(* Every handler is an asyncio coroutine; it runs atomically between two   *)
(* awaits and the startup task runs while it is suspended.  A call         *)
(* `await asyncio.to_thread(f)` has two visible instants: the instant the  *)
(* worker thread executes f on the database (DbCall), and the later        *)
(* instant the coroutine is resumed with the result.  Where the code that  *)
(* follows the resumption touches no shared state before its next await,   *)
(* the resumption is folded into the database step.  `await                *)
(* query.answer()`, the first statement of callback_query_handler, comes   *)
(* before any access to shared state and is folded into the start of the   *)
(* handler.  asyncio.Lock.acquire does not suspend when the lock is free,  *)
(* and hands the lock to waiters in FIFO order.                            *)
(*                                                                         *)
(* The Application is built without concurrent_updates and every handler   *)
(* is registered blocking (808-825): the dispatcher takes the next update  *)
(* only when the handler of the previous one has returned, so no two       *)
(* handlers overlap.  The startup task (797-806) is created with           *)
(* asyncio.create_task and runs beside the handlers.  Its first step is    *)
(* init_db (799), whose worker thread creates the tables of state.db one   *)
(* after the other (91-94), each CREATE TABLE taking effect at once: on a  *)
(* first start a sync helper of a handler raises sqlite3.OperationalError  *)
(* (no such table) for as long as its table has not been created.          *)
(***************************************************************************)
EXTENDS Integers, Sequences, FiniteSets, TLC

\* ---------------------------------------------------------------- bounds
NUsers == 1
MaxOps == 3

Users == 1..NUsers
TaskIds == 1..MaxOps
Loader == MaxOps + 1

VARIABLES
    pending_requests,     \* main.py:75
    active_sessions,      \* main.py:76
    banned_users_cache,   \* main.py:77
    db_pending,           \* table pending of state.db
    db_active,            \* table active of state.db
    db_banned,            \* table banned of state.db
    db_tables,            \* how many of the tables of 91-94 state.db has, in that order
    state_lock,           \* main.py:80, 0 = free, else the holder
    lock_waiters,         \* FIFO of coroutines suspended in state_lock.acquire()
    tasks,                \* handler invocations
    loader,               \* the startup task (startup_tasks, 797-806)
    banWindow,            \* history: a Ban(u) completed and no Unban(u) began since
    resolved,             \* history: decisions reported on u's current request
    dbFailed,             \* history: whose persistence calls have raised
    noticeFailed,         \* history: the handlers whose notice could not be delivered
    now,                  \* time.time(), in ticks
    bucket_tokens,        \* _bucket_tokens, main.py:84
    bucket_last,          \* _bucket_last, main.py:85
    admin_msgid_to_user,  \* main.py:67
    user_last_admin_msgid, \* main.py:69
    relays,               \* invocations of message_relay_handler
    numeric_admin_ids     \* main.py:72

vars == << pending_requests, active_sessions, banned_users_cache,
           db_pending, db_active, db_banned, db_tables, state_lock,
           lock_waiters,
           tasks, loader, banWindow, resolved, dbFailed, noticeFailed,
           now, bucket_tokens, bucket_last, admin_msgid_to_user,
           user_last_admin_msgid, relays, numeric_admin_ids >>

bucket == << bucket_tokens, bucket_last >>
corr == << admin_msgid_to_user, user_last_admin_msgid >>
fwd == << now, bucket_tokens, bucket_last, admin_msgid_to_user,
          user_last_admin_msgid, relays, numeric_admin_ids >>
reg == << pending_requests, active_sessions, banned_users_cache,
          db_pending, db_active, db_banned, db_tables, state_lock,
          lock_waiters,
          tasks, loader, banWindow, resolved, dbFailed, noticeFailed >>

mem == << pending_requests, active_sessions, banned_users_cache >>
db == << db_pending, db_active, db_banned, db_tables >>
lock == << state_lock, lock_waiters >>
hist == << banWindow, resolved, dbFailed, noticeFailed >>

Idle == [op |-> "none", uid |-> 0, pc |-> "idle", out |-> "", val |-> FALSE, win |-> FALSE]
Done == [op |-> "none", uid |-> 0, pc |-> "done", out |-> "", val |-> FALSE, win |-> FALSE]

NewTask(o, u) == [op |-> o, uid |-> u, pc |-> "start", out |-> "", val |-> FALSE, win |-> FALSE]

Running(t) == tasks[t].op # "none"

\* a handler has been called and has not returned
HandlerBusy ==
    \/ \E s \in TaskIds : tasks[s].pc \notin {"idle", "done"}
    \/ \E r \in DOMAIN relays : relays[r].pc \notin {"idle", "done"}

\* state_lock was released to the startup task, which waits in the ready
\* queue of the event loop: it runs before any coroutine that suspends now
LoaderWoken == state_lock = Loader

\* the dispatcher calls the next handler: the one before has returned
\* (810, 813-825); t is the next free invocation slot
IsNext(t) == /\ ~HandlerBusy
             /\ tasks[t].pc = "idle"
             /\ \A s \in TaskIds : s < t => tasks[s].pc # "idle"

\* ------------------------------------------------- SQLite helpers (sync)
\* the tables in the order _init_db_sync creates them (91-94)
TABLES == << "banned", "pending", "active", "messages" >>

\* table tb exists: every helper opens state.db and executes one statement
\* on one table, which raises sqlite3.OperationalError if the table is not
\* there
HasTable(tb) == \E i \in 1..db_tables : TABLES[i] = tb

db_add_pending_sync(S, u) == S \cup {u}
db_remove_pending_sync(S, u) == S \ {u}
db_add_active_sync(S, u) == S \cup {u}
db_remove_active_sync(S, u) == S \ {u}
db_ban_sync(S, u) == S \cup {u}
db_unban_sync(S, u) == S \ {u}
db_is_banned_sync(S, u) == u \in S

\* db_is_banned: the cache is consulted first, without suspending
db_is_banned_cached(u) == u \in banned_users_cache

\* ------------------------------------ critical sections under state_lock
\* each yields the sets after the section, the await the coroutine stops
\* at, the status it has decided on, and whether it still holds the lock
CSRes(p, a, pc, out, hold) == [p |-> p, a |-> a, pc |-> pc, out |-> out, hold |-> hold]

\* user_apply's locked section without the membership tests of 517-522
user_apply_cs_blind(u) ==
    CSRes(pending_requests \cup {u}, active_sessions, "db_add_pending", "", FALSE)

user_apply_cs(u) ==
    IF u \in active_sessions
    THEN CSRes(pending_requests, active_sessions, "reply_locked", "AlreadyActive", TRUE)
    ELSE IF u \in pending_requests
    THEN CSRes(pending_requests, active_sessions, "reply_locked", "AlreadyPending", TRUE)
    ELSE CSRes(pending_requests \cup {u}, active_sessions, "db_add_pending", "", FALSE)

\* user_cancel's locked section without the discard of 532
user_cancel_cs_keep(u) ==
    IF u \in pending_requests
    THEN CSRes(pending_requests, active_sessions, "db_remove_pending", "", TRUE)
    ELSE CSRes(pending_requests, active_sessions, "reply", "NotPending", FALSE)

user_cancel_cs(u) ==
    IF u \in pending_requests
    THEN CSRes(pending_requests \ {u}, active_sessions, "db_remove_pending", "", TRUE)
    ELSE CSRes(pending_requests, active_sessions, "reply", "NotPending", FALSE)

\* end_cmd's locked section without the membership test of line 408
end_cmd_cs_always(u) ==
    CSRes(pending_requests, active_sessions \ {u}, "db_remove_active", "", TRUE)

end_cmd_cs(u) ==
    IF u \in active_sessions
    THEN CSRes(pending_requests, active_sessions \ {u}, "db_remove_active", "", TRUE)
    ELSE CSRes(pending_requests, active_sessions, "reply_locked", "NotActive", TRUE)

user_end_cs(u) ==
    IF u \in active_sessions
    THEN CSRes(pending_requests, active_sessions \ {u}, "db_remove_active", "", TRUE)
    ELSE CSRes(pending_requests, active_sessions, "reply", "NotActive", FALSE)

admin_accept_cs(u) ==
    CSRes(pending_requests \ {u}, active_sessions \cup {u}, "db_remove_pending", "", FALSE)

admin_reject_cs(u) ==
    CSRes(pending_requests \ {u}, active_sessions, "db_remove_pending", "", FALSE)

connect_cmd_cs(u) ==
    CSRes(pending_requests \ {u}, active_sessions \cup {u}, "db_remove_pending", "", FALSE)

ban_cmd_cs(u) ==
    CSRes(pending_requests \ {u}, active_sessions \ {u}, "db_remove_pending", "", FALSE)

\* list_cmd (459-461) and broadcast_cmd (492-493) copy the sets under the
\* lock and leave it before they answer
list_cmd_cs ==
    CSRes(pending_requests, active_sessions, "reply", "Listed", FALSE)

broadcast_cmd_cs ==
    CSRes(pending_requests, active_sessions, "reply", "Broadcast", FALSE)

CS(o, u) ==
    CASE o = "apply"   -> user_apply_cs(u)
      [] o = "cancel"  -> user_cancel_cs(u)
      [] o = "end"     -> end_cmd_cs(u)
      [] o = "uend"    -> user_end_cs(u)
      [] o = "accept"  -> admin_accept_cs(u)
      [] o = "reject"  -> admin_reject_cs(u)
      [] o = "connect" -> connect_cmd_cs(u)
      [] o = "ban"     -> ban_cmd_cs(u)
      [] o = "list"    -> list_cmd_cs
      [] o = "broadcast" -> broadcast_cmd_cs

\* history of decisions on the current request of u: a new request begins
\* when user_apply adds u to pending; accept, reject and cancel decide it
Decides(o, r) == \/ o \in {"accept", "reject"}
                 \/ o = "cancel" /\ r.pc = "db_remove_pending"

ResolvedAfter(o, u, r) ==
    IF o = "apply" /\ r.pc = "db_add_pending" THEN [resolved EXCEPT ![u] = 0]
    ELSE IF Decides(o, r) /\ resolved[u] < 2 THEN [resolved EXCEPT ![u] = @ + 1]
    ELSE resolved

\* release(): the lock goes to the first waiter, if any
LockAfterRelease == IF lock_waiters = << >> THEN 0 ELSE Head(lock_waiters)
WaitersAfterRelease == IF lock_waiters = << >> THEN << >> ELSE Tail(lock_waiters)

\* `async with state_lock:` reached by task t whose record is rec: run the
\* critical section now if the lock is free, else suspend in the queue
EnterLock(t, rec) ==
    IF state_lock = 0
    THEN LET r == CS(rec.op, rec.uid) IN
         /\ pending_requests' = r.p
         /\ active_sessions' = r.a
         /\ tasks' = [tasks EXCEPT ![t] = [rec EXCEPT !.pc = r.pc, !.out = r.out]]
         /\ state_lock' = IF r.hold THEN t ELSE 0
         /\ resolved' = ResolvedAfter(rec.op, rec.uid, r)
         /\ UNCHANGED lock_waiters
    ELSE /\ tasks' = [tasks EXCEPT ![t] = [rec EXCEPT !.pc = "wait_lock"]]
         /\ lock_waiters' = Append(lock_waiters, t)
         /\ UNCHANGED << pending_requests, active_sessions, state_lock, resolved >>

\* a waiter that was handed the lock runs its critical section
LockGranted(t) ==
    /\ tasks[t].pc = "wait_lock"
    /\ state_lock = t
    /\ LET r == CS(tasks[t].op, tasks[t].uid) IN
         /\ pending_requests' = r.p
         /\ active_sessions' = r.a
         /\ tasks' = [tasks EXCEPT ![t].pc = r.pc, ![t].out = r.out]
         /\ state_lock' = IF r.hold THEN t ELSE LockAfterRelease
         /\ lock_waiters' = IF r.hold THEN lock_waiters ELSE WaitersAfterRelease
         /\ resolved' = ResolvedAfter(tasks[t].op, tasks[t].uid, r)
    /\ UNCHANGED << banned_users_cache, db, loader, banWindow, dbFailed, noticeFailed >>
    /\ UNCHANGED fwd

\* ------------------------------------------------------ handler starts
\* user_apply without the ban check of lines 513-515
user_apply_nocheck(t, u) ==
    /\ IsNext(t)
    /\ ~LoaderWoken
    /\ EnterLock(t, [NewTask("apply", u) EXCEPT !.win = banWindow[u]])
    /\ UNCHANGED << banned_users_cache, db, loader, banWindow, dbFailed, noticeFailed >>
    /\ UNCHANGED fwd

\* callback "user_apply" (512-527): ban check, then the locked section
user_apply(t, u) ==
    /\ IsNext(t)
    /\ ~LoaderWoken
    /\ LET rec == [NewTask("apply", u) EXCEPT !.win = banWindow[u]] IN
       IF db_is_banned_cached(u)
       THEN /\ tasks' = [tasks EXCEPT ![t] = [rec EXCEPT !.pc = "reply", !.out = "Banned"]]
            /\ UNCHANGED << mem, db, lock, loader, hist >>
       ELSE /\ tasks' = [tasks EXCEPT ![t] = [rec EXCEPT !.pc = "isb"]]
            /\ UNCHANGED << mem, db, lock, loader, hist >>
    /\ UNCHANGED fwd

\* callback "user_cancel" (529-542)
user_cancel(t, u) ==
    /\ IsNext(t)
    /\ ~LoaderWoken
    /\ EnterLock(t, NewTask("cancel", u))
    /\ UNCHANGED << banned_users_cache, db, loader, banWindow, dbFailed, noticeFailed >>
    /\ UNCHANGED fwd

\* callback "user_end" (544-557)
user_end(t, u) ==
    /\ IsNext(t)
    /\ ~LoaderWoken
    /\ EnterLock(t, NewTask("uend", u))
    /\ UNCHANGED << banned_users_cache, db, loader, banWindow, dbFailed, noticeFailed >>
    /\ UNCHANGED fwd

\* /end (396-417); callback "admin_end" (646-663) has the same body
end_cmd(t, u) ==
    /\ IsNext(t)
    /\ EnterLock(t, NewTask("end", u))
    /\ UNCHANGED << banned_users_cache, db, loader, banWindow, dbFailed, noticeFailed >>
    /\ UNCHANGED fwd

\* admin_accept without the membership test of line 608
admin_accept_nocheck(t, u) ==
    /\ IsNext(t)
    /\ ~LoaderWoken
    /\ EnterLock(t, NewTask("accept", u))
    /\ UNCHANGED << banned_users_cache, db, loader, banWindow, dbFailed, noticeFailed >>
    /\ UNCHANGED fwd

\* callback "admin_accept" (602-625): membership test outside the lock
admin_accept(t, u) ==
    /\ IsNext(t)
    /\ ~LoaderWoken
    /\ IF u \in pending_requests
       THEN EnterLock(t, NewTask("accept", u))
       ELSE /\ tasks' = [tasks EXCEPT ![t] =
                    [NewTask("accept", u) EXCEPT !.pc = "reply", !.out = "NotPending"]]
            /\ UNCHANGED << pending_requests, active_sessions, lock, resolved >>
    /\ UNCHANGED << banned_users_cache, db, loader, banWindow, dbFailed, noticeFailed >>
    /\ UNCHANGED fwd

\* callback "admin_reject" (627-644): membership test outside the lock
admin_reject(t, u) ==
    /\ IsNext(t)
    /\ ~LoaderWoken
    /\ IF u \in pending_requests
       THEN EnterLock(t, NewTask("reject", u))
       ELSE /\ tasks' = [tasks EXCEPT ![t] =
                    [NewTask("reject", u) EXCEPT !.pc = "reply", !.out = "NotPending"]]
            /\ UNCHANGED << pending_requests, active_sessions, lock, resolved >>
    /\ UNCHANGED << banned_users_cache, db, loader, banWindow, dbFailed, noticeFailed >>
    /\ UNCHANGED fwd

\* /connect (371-394), issued by an operator
connect_cmd(t, u) ==
    /\ IsNext(t)
    /\ IF db_is_banned_cached(u)
       THEN tasks' = [tasks EXCEPT ![t] =
                [NewTask("connect", u) EXCEPT !.pc = "reply", !.out = "Banned"]]
       ELSE tasks' = [tasks EXCEPT ![t] = [NewTask("connect", u) EXCEPT !.pc = "isb"]]
    /\ UNCHANGED << mem, db, lock, loader, hist >>
    /\ UNCHANGED fwd

\* an Unban(u) is running
UnbanRunning(u) == \E s \in TaskIds : tasks[s].op = "unban" /\ tasks[s].uid = u

\* /ban (419-440); callback "admin_ban" (665-682) has the same body.
\* win: no Unban(u) has overlapped this ban so far
ban_cmd(t, u) ==
    /\ IsNext(t)
    /\ tasks' = [tasks EXCEPT ![t] =
          [NewTask("ban", u) EXCEPT !.pc = "db_ban", !.win = ~UnbanRunning(u)]]
    /\ UNCHANGED << mem, db, lock, loader, hist >>
    /\ UNCHANGED fwd

\* /unban (442-454): closes the ban window of u
unban_cmd(t, u) ==
    /\ IsNext(t)
    /\ tasks' = [s \in TaskIds |->
          IF s = t THEN [NewTask("unban", u) EXCEPT !.pc = "db_unban"]
          ELSE IF tasks[s].uid = u THEN [tasks[s] EXCEPT !.win = FALSE]
          ELSE tasks[s]]
    /\ banWindow' = [banWindow EXCEPT ![u] = FALSE]
    /\ UNCHANGED << mem, db, lock, loader, resolved, dbFailed, noticeFailed >>
    /\ UNCHANGED fwd

\* /list (456-464), issued by an operator: the sets are read under the lock
list_cmd(t) ==
    /\ IsNext(t)
    /\ EnterLock(t, NewTask("list", 0))
    /\ UNCHANGED << banned_users_cache, db, loader, banWindow, dbFailed, noticeFailed >>
    /\ UNCHANGED fwd

\* /broadcast (484-500), issued by an operator, with a text or without:
\* without, the usage is answered (487-489); with, the active set is read
\* under the lock, then the text is sent to each of its members inside
\* try/except and the count is answered
broadcast_cmd(t, args) ==
    /\ IsNext(t)
    /\ IF args
       THEN EnterLock(t, NewTask("broadcast", 0))
       ELSE /\ tasks' = [tasks EXCEPT ![t] =
                    [NewTask("broadcast", 0) EXCEPT !.pc = "reply", !.out = "Usage"]]
            /\ UNCHANGED << pending_requests, active_sessions, lock, resolved >>
    /\ UNCHANGED << banned_users_cache, db, loader, banWindow, dbFailed, noticeFailed >>
    /\ UNCHANGED fwd

\* ------------------------------------------ the worker thread runs a call
NextPc(o, pc) ==
    CASE pc = "db_add_pending" -> "reply"
      [] pc = "db_remove_pending" /\ o = "cancel" -> "reply_locked"
      [] pc = "db_remove_pending" /\ o = "reject" -> "reply"
      [] pc = "db_remove_pending" /\ o \in {"accept", "connect"} -> "db_add_active"
      [] pc = "db_remove_pending" /\ o = "ban" -> "db_remove_active"
      [] pc = "db_add_active" -> "reply"
      [] pc = "db_remove_active" /\ o \in {"end", "uend"} -> "reply_locked"
      [] pc = "db_remove_active" /\ o = "ban" -> "reply"
      [] pc = "db_ban" -> "db_ban_ret"
      [] pc = "db_unban" -> "db_unban_ret"
      [] pc = "isb" -> "isb_ret"

\* the status the handler reports once its last persistence call returned
NextOut(o, pc) ==
    CASE pc = "db_add_pending" -> "Accepted"
      [] pc = "db_remove_pending" /\ o = "cancel" -> "Canceled"
      [] pc = "db_remove_pending" /\ o = "reject" -> "Rejected"
      [] pc = "db_add_active" -> "Connected"
      [] pc = "db_remove_active" /\ o \in {"end", "uend"} -> "Ended"
      [] pc = "db_remove_active" /\ o = "ban" -> "Banned"
      [] OTHER -> ""

DbPcs == {"isb", "db_add_pending", "db_remove_pending", "db_add_active",
          "db_remove_active", "db_ban", "db_unban"}

\* the table of the statement of each helper (100-191)
TableOf(pc) ==
    CASE pc \in {"isb", "db_ban", "db_unban"} -> "banned"
      [] pc \in {"db_add_pending", "db_remove_pending"} -> "pending"
      [] pc \in {"db_add_active", "db_remove_active"} -> "active"

\* the sync helper opens state.db and executes its statement: it commits,
\* or, its table not yet created, raises sqlite3.OperationalError with
\* nothing committed
DbCall(t) ==
    /\ tasks[t].pc \in DbPcs
    /\ LET pc == tasks[t].pc
           o == tasks[t].op
           u == tasks[t].uid IN
       IF HasTable(TableOf(pc))
       THEN
       /\ db_pending' = CASE pc = "db_add_pending" -> db_add_pending_sync(db_pending, u)
                          [] pc = "db_remove_pending" -> db_remove_pending_sync(db_pending, u)
                          [] OTHER -> db_pending
       /\ db_active' = CASE pc = "db_add_active" -> db_add_active_sync(db_active, u)
                         [] pc = "db_remove_active" -> db_remove_active_sync(db_active, u)
                         [] OTHER -> db_active
       /\ db_banned' = CASE pc = "db_ban" -> db_ban_sync(db_banned, u)
                         [] pc = "db_unban" -> db_unban_sync(db_banned, u)
                         [] OTHER -> db_banned
       /\ tasks' = [tasks EXCEPT ![t].pc = NextPc(o, pc),
                                 ![t].out = NextOut(o, pc),
                                 ![t].val = IF pc = "isb" THEN db_is_banned_sync(db_banned, u)
                                            ELSE FALSE]
       /\ UNCHANGED dbFailed
       ELSE
       /\ tasks' = [tasks EXCEPT ![t].pc = "raise", ![t].out = "error", ![t].val = FALSE]
       /\ dbFailed' = dbFailed \cup {"handler"}
       /\ UNCHANGED << db_pending, db_active, db_banned >>
    /\ UNCHANGED << db_tables, mem, lock, loader, banWindow, resolved, noticeFailed >>
    /\ UNCHANGED fwd

\* the exception is delivered to the awaiting coroutine and leaves the
\* handler; `async with state_lock` releases on the way out
Unwind(t) ==
    /\ tasks[t].pc = "raise"
    /\ ~LoaderWoken
    /\ tasks' = [tasks EXCEPT ![t] = Done]
    /\ IF state_lock = t
       THEN /\ state_lock' = LockAfterRelease
            /\ lock_waiters' = WaitersAfterRelease
       ELSE UNCHANGED lock
    /\ UNCHANGED << mem, db, loader, hist >>
    /\ UNCHANGED fwd

\* ------------------------------------- resumptions that touch the memory
\* db_is_banned returned to user_apply (513-516) or connect_cmd (382-385)
db_is_banned(t) ==
    /\ tasks[t].pc = "isb_ret"
    /\ ~LoaderWoken
    /\ IF tasks[t].val
       THEN /\ tasks' = [tasks EXCEPT ![t].pc = "reply", ![t].out = "Banned", ![t].val = FALSE]
            /\ UNCHANGED << pending_requests, active_sessions, lock, resolved >>
       ELSE EnterLock(t, [tasks[t] EXCEPT !.val = FALSE])
    /\ UNCHANGED << banned_users_cache, db, loader, banWindow, dbFailed, noticeFailed >>
    /\ UNCHANGED fwd

\* db_ban returned (215-218), then the locked eviction of ban_cmd (431-433)
db_ban(t) ==
    /\ tasks[t].pc = "db_ban_ret"
    /\ ~LoaderWoken
    /\ banned_users_cache' = banned_users_cache \cup {tasks[t].uid}
    /\ EnterLock(t, tasks[t])
    /\ UNCHANGED << db, loader, banWindow, dbFailed, noticeFailed >>
    /\ UNCHANGED fwd

\* db_unban returned (220-222)
db_unban(t) ==
    /\ tasks[t].pc = "db_unban_ret"
    /\ ~LoaderWoken
    /\ banned_users_cache' = banned_users_cache \ {tasks[t].uid}
    /\ tasks' = [tasks EXCEPT ![t].pc = "reply", ![t].out = "Unbanned"]
    /\ UNCHANGED << pending_requests, active_sessions, db, lock, loader, hist >>
    /\ UNCHANGED fwd

\* the outcomes after which the handler, besides its reply to the caller,
\* sends notices with context.bot.send_message inside try/except: to the
\* operators (526, 535-539, 550-554) or to the affected user (391-394,
\* 411-414, 436-439, 615-622, 638-641, 657-660, 678-681)
Notices(o, out) ==
    \/ o = "apply" /\ out = "Accepted"
    \/ o \in {"cancel", "reject", "accept", "connect", "end", "uend"}
          /\ out \in {"Canceled", "Rejected", "Connected", "Ended"}
    \/ o = "ban" /\ out = "Banned"

\* the reply of a handler that sends no notice returns: the handler ends,
\* and leaves `async with state_lock` if it was still inside
Finish(t) ==
    /\ tasks[t].pc \in {"reply", "reply_locked"}
    /\ ~LoaderWoken
    /\ ~Notices(tasks[t].op, tasks[t].out)
    /\ tasks' = [tasks EXCEPT ![t] = Done]
    /\ IF tasks[t].pc = "reply_locked"
       THEN /\ state_lock' = LockAfterRelease
            /\ lock_waiters' = WaitersAfterRelease
       ELSE UNCHANGED lock
    /\ UNCHANGED << mem, db, loader, hist >>
    /\ UNCHANGED fwd

\* Notify whose undelivered notice leaves the handler as an exception
Notify_abort(t, ok) ==
    /\ tasks[t].pc \in {"reply", "reply_locked"}
    /\ ~LoaderWoken
    /\ Notices(tasks[t].op, tasks[t].out)
    /\ tasks' = IF ok THEN [tasks EXCEPT ![t] = Done]
                ELSE [tasks EXCEPT ![t].pc = "raise", ![t].out = "error"]
    /\ IF tasks[t].pc = "reply_locked"
       THEN /\ state_lock' = LockAfterRelease
            /\ lock_waiters' = WaitersAfterRelease
       ELSE UNCHANGED lock
    /\ banWindow' = IF ok /\ tasks[t].op = "ban" /\ tasks[t].win
                    THEN [banWindow EXCEPT ![tasks[t].uid] = TRUE]
                    ELSE banWindow
    /\ noticeFailed' = IF ok THEN noticeFailed
                       ELSE noticeFailed \cup {<< tasks[t].op, tasks[t].uid >>}
    /\ UNCHANGED << mem, db, loader, resolved, dbFailed >>
    /\ UNCHANGED fwd

\* the reply and the notices of a handler return; ok: the notices were
\* delivered, else send_message raised and the except clause took it.  The
\* handler ends either way, and leaves `async with state_lock` if inside.
\* A ban that ends with no Unban(u) overlapping opens the ban window of u.
Notify(t, ok) ==
    /\ tasks[t].pc \in {"reply", "reply_locked"}
    /\ ~LoaderWoken
    /\ Notices(tasks[t].op, tasks[t].out)
    /\ tasks' = [tasks EXCEPT ![t] = Done]
    /\ IF tasks[t].pc = "reply_locked"
       THEN /\ state_lock' = LockAfterRelease
            /\ lock_waiters' = WaitersAfterRelease
       ELSE UNCHANGED lock
    /\ banWindow' = IF tasks[t].op = "ban" /\ tasks[t].win
                    THEN [banWindow EXCEPT ![tasks[t].uid] = TRUE]
                    ELSE banWindow
    /\ noticeFailed' = IF ok THEN noticeFailed
                       ELSE noticeFailed \cup {<< tasks[t].op, tasks[t].uid >>}
    /\ UNCHANGED << mem, db, loader, resolved, dbFailed >>
    /\ UNCHANGED fwd

\* ------------------------------------------------ startup: startup_tasks
\* 799: the worker thread runs _init_db_sync (88-98).  Each CREATE TABLE IF
\* NOT EXISTS (91-94) is a step of its own, in effect as soon as it is
\* executed (sqlite3 opens no transaction for it), and leaves a table that
\* exists, with its rows, as it is: a step creates the next table that is
\* missing.  With the last table there the thread returns and
\* load_state_from_db hands its first query to a thread (777).
init_db ==
    /\ loader.pc = "init_db"
    /\ db_tables' = IF db_tables < Len(TABLES) THEN db_tables + 1 ELSE db_tables
    /\ loader' = IF db_tables' = Len(TABLES)
                 THEN [loader EXCEPT !.pc = "get_pending"]
                 ELSE loader
    /\ UNCHANGED << mem, db_pending, db_active, db_banned, lock, tasks, hist >>
    /\ UNCHANGED fwd

load_get_pending ==
    /\ loader.pc = "get_pending"
    /\ loader' = [loader EXCEPT !.pc = "get_active", !.pend = db_pending]
    /\ UNCHANGED << mem, db, lock, tasks, hist >>
    /\ UNCHANGED fwd

load_get_active ==
    /\ loader.pc = "get_active"
    /\ loader' = [loader EXCEPT !.pc = "loaded", !.act = db_active]
    /\ UNCHANGED << mem, db, lock, tasks, hist >>
    /\ UNCHANGED fwd

\* 779-794: under the lock add what was read; then read table banned
\* directly (no thread, no await) into the cache
\* ok: the read of table banned went through, else it raised and the except
\* clause of 793 took it
load_merge(l, ok) ==
    /\ pending_requests' = pending_requests \cup loader.pend
    /\ active_sessions' = active_sessions \cup loader.act
    /\ banned_users_cache' = IF ok THEN banned_users_cache \cup db_banned
                             ELSE banned_users_cache
    /\ dbFailed' = IF ok THEN dbFailed ELSE dbFailed \cup {"startup"}
    /\ loader' = [pc |-> "resolve", pend |-> {}, act |-> {}]
    /\ resolved' = [u \in Users |->
          IF u \in loader.pend \ pending_requests THEN 0 ELSE resolved[u]]
    /\ state_lock' = l[1]
    /\ lock_waiters' = l[2]

load_state_from_db(ok) ==
    /\ loader.pc = "loaded"
    /\ IF state_lock = 0
       THEN load_merge(<< state_lock, lock_waiters >>, ok)
       ELSE /\ loader' = [loader EXCEPT !.pc = "wait_lock"]
            /\ lock_waiters' = Append(lock_waiters, Loader)
            /\ UNCHANGED << mem, state_lock, resolved, dbFailed >>
    /\ UNCHANGED << db, tasks, banWindow, noticeFailed >>
    /\ UNCHANGED fwd

load_lock_granted(ok) ==
    /\ loader.pc = "wait_lock"
    /\ state_lock = Loader
    /\ load_merge(<< LockAfterRelease, WaitersAfterRelease >>, ok)
    /\ UNCHANGED << db, tasks, banWindow, noticeFailed >>
    /\ UNCHANGED fwd

\* ------------------------------------------------------------- operators
ADMIN_IDS == {"8348390173"}
\* the chat ids "@" + name that lines 328 and 744 build from ADMIN_USERNAMES
ADMIN_USERNAMES == << "@ap114514666" >>
\* the numeric id of the account @ap114514666: what get_chat (769) returns
\* for it and what update.effective_user.id is in its updates
NamedAdminId == "id(@ap114514666)"

\* the senders of /register_admin: the account of ADMIN_IDS, the account
\* of ADMIN_USERNAMES, and somebody else
Callers == { [id |-> "8348390173", username |-> ""],
             [id |-> NamedAdminId, username |-> "@ap114514666"],
             [id |-> "other", username |-> ""] }

username_is_admin(username) ==
    username # "" /\ \E i \in DOMAIN ADMIN_USERNAMES : ADMIN_USERNAMES[i] = username

\* /register_admin (362-369)
register_admin_cmd(t, c) ==
    /\ IsNext(t)
    /\ IF ~username_is_admin(c.username) /\ c.id \notin ADMIN_IDS
       THEN /\ tasks' = [tasks EXCEPT ![t] =
                    [NewTask("register", 0) EXCEPT !.pc = "reply", !.out = "Refused"]]
            /\ UNCHANGED numeric_admin_ids
       ELSE /\ numeric_admin_ids' = numeric_admin_ids \cup {c.id}
            /\ tasks' = [tasks EXCEPT ![t] =
                    [NewTask("register", 0) EXCEPT !.pc = "reply", !.out = "Registered"]]
    /\ UNCHANGED << mem, db, lock, loader, hist >>
    /\ UNCHANGED << now, bucket, corr, relays >>

\* startup_tasks after the load (801-806): get_chat("@ap114514666") returns
\* the chat (ok) or raises, and what was resolved is added
resolve_admin_usernames_to_ids(ok) ==
    /\ loader.pc = "resolve"
    /\ numeric_admin_ids' = IF ok THEN numeric_admin_ids \cup {NamedAdminId}
                            ELSE numeric_admin_ids
    /\ loader' = [loader EXCEPT !.pc = "done"]
    /\ UNCHANGED << mem, db, lock, tasks, hist >>
    /\ UNCHANGED << now, bucket, corr, relays >>

\* =============================================== rate limiter and forwarder
\* time is counted in ticks of 1/(2 * fill rate) second, so that one token
\* is two ticks and a refill of less than one token can be told apart
MAX_COPY_PER_SECOND == 5
COPY_BUCKET_CAPACITY == MAX_COPY_PER_SECOND
COPY_BUCKET_FILL_RATE == MAX_COPY_PER_SECOND
TicksPerSecond == 2 * MAX_COPY_PER_SECOND
Retries == 4
AcquireTimeout == 3 * TicksPerSecond

MaxTime == 4
MaxMsgs == 2
RelayIds == 1..MaxMsgs
Modes == {"ok", "throttle", "permanent"}

Min(a, b) == IF a < b THEN a ELSE b

\* _refill_bucket (279-288) at time t: the bucket after the call
refill_bucket(tok, last, t) ==
    LET elapsed == t - last
        add_ticks == elapsed * COPY_BUCKET_FILL_RATE   \* add = add_ticks / TicksPerSecond
    IN  IF elapsed <= 0 THEN << tok, last >>
        ELSE IF add_ticks >= TicksPerSecond
        THEN << Min(COPY_BUCKET_CAPACITY, tok + (add_ticks \div TicksPerSecond)), t >>
        ELSE << tok, last >>

\* acquire_copy_token (290-298) called at time t.  Line 295 assigns
\* _bucket_tokens and the function has no `global` statement, so the name is
\* local to it, and the read of line 294 raises UnboundLocalError in the
\* first pass of the loop, after _refill_bucket (which does declare the
\* globals) has run.  The loop is entered whenever timeout > 0; nothing
\* suspends before the raise.
acquire_copy_token(tok, last, t, timeout) ==
    IF 0 < timeout
    THEN LET b == refill_bucket(tok, last, t) IN
         [exc |-> "UnboundLocalError", got |-> FALSE, tokens |-> b[1], last |-> b[2]]
    ELSE [exc |-> "none", got |-> FALSE, tokens |-> tok, last |-> last]

\* safe_copy (301-318) from pass `attempt` on, `made` provider calls made so
\* far, against a destination that answers every msg.copy by `mode`.  The
\* call of acquire_copy_token (303) is outside the try, so what it raises
\* leaves safe_copy.  The sleeps of the passes are not shown: with the
\* timeout of line 303 no pass gets beyond line 303.
RECURSIVE safe_copy_from(_, _, _, _, _, _, _, _)
safe_copy_from(attempt, made, tok, last, t, mode, retries, timeout) ==
    IF attempt >= retries
    THEN [exc |-> "RuntimeError", delivered |-> FALSE, attempts |-> made,
          tokens |-> tok, last |-> last]
    ELSE LET a == acquire_copy_token(tok, last, t, timeout) IN
         IF a.exc # "none"
         THEN [exc |-> a.exc, delivered |-> FALSE, attempts |-> made,
               tokens |-> a.tokens, last |-> a.last]
         ELSE CASE mode = "ok" ->
                     [exc |-> "none", delivered |-> TRUE, attempts |-> made + 1,
                      tokens |-> a.tokens, last |-> a.last]
                [] mode = "throttle" ->
                     safe_copy_from(attempt + 1, made + 1, a.tokens, a.last, t,
                                    mode, retries, timeout)
                [] OTHER ->
                     IF attempt = retries - 1
                     THEN [exc |-> "TelegramError", delivered |-> FALSE,
                           attempts |-> made + 1, tokens |-> a.tokens, last |-> a.last]
                     ELSE safe_copy_from(attempt + 1, made + 1, a.tokens, a.last, t,
                                         mode, retries, timeout)

safe_copy(tok, last, t, mode) ==
    safe_copy_from(0, 0, tok, last, t, mode, Retries, AcquireTimeout)

\* list(S): the elements of a set in some order
Orders(S) == { o \in [1..Cardinality(S) -> S] :
                 \A i, j \in 1..Cardinality(S) : i # j => o[i] # o[j] }

\* the destinations of the user path, in the order of lines 732 and 742:
\* list(numeric_admin_ids), then the admin user names
Dests == { o \o ADMIN_USERNAMES : o \in Orders(numeric_admin_ids) }

\* copied.chat.id (734, 746): the numeric id of the chat a copy went to
ChatId(dest) == IF dest = "@ap114514666" THEN NamedAdminId ELSE dest

NoRelay == [kind |-> "none", sender |-> 0, pc |-> "idle", val |-> FALSE, text |-> FALSE,
            mode |-> "", calls |-> 0, attempts |-> 0, exc |-> "", out |-> "",
            chat |-> "", reply |-> 0]
RelayDone == [NoRelay EXCEPT !.pc = "done"]

\* the dispatcher calls message_relay_handler: the handler before has
\* returned (810, 825); r is the next free invocation slot
RelayIsNext(r) == /\ ~HandlerBusy
                  /\ relays[r].pc = "idle"
                  /\ \A s \in RelayIds : s < r => relays[s].pc # "idle"

\* 730-752: try the destinations in order and stop at the first copy that
\* is delivered; i is the next destination, calls and made count the
\* safe_copy calls and the provider calls so far
RECURSIVE copy_to_admins(_, _, _, _, _, _, _, _)
copy_to_admins(i, calls, made, tok, last, t, mode, dests) ==
    IF i > Len(dests)
    THEN [sent |-> FALSE, dest |-> "", calls |-> calls, attempts |-> made,
          exc |-> "", tokens |-> tok, last |-> last]
    ELSE CHOOSE res \in
           { IF c.delivered
             THEN [sent |-> TRUE, dest |-> dests[i], calls |-> calls + 1,
                   attempts |-> made + c.attempts, exc |-> "none",
                   tokens |-> c.tokens, last |-> c.last]
             ELSE CHOOSE res2 \in
                    { IF rest.sent THEN rest ELSE [rest EXCEPT !.exc = c.exc] :
                         rest \in {copy_to_admins(i + 1, calls + 1, made + c.attempts,
                                                  c.tokens, c.last, t, mode, dests)} } : TRUE
             : c \in {safe_copy(tok, last, t, mode)} } : TRUE

\* the id the provider gives the next copy it delivers
NextMsgId == Len(admin_msgid_to_user) + 1

\* the user path once the sender is known to be active and the text saved
\* (730-752)
Forward(r) ==
    \E f \in {copy_to_admins(1, 0, 0, bucket_tokens, bucket_last, now, relays[r].mode, d) :
                  d \in Dests} :
    LET u == relays[r].sender IN
    /\ bucket_tokens' = f.tokens
    /\ bucket_last' = f.last
    /\ admin_msgid_to_user' =
          IF f.sent
          THEN Append(admin_msgid_to_user, [chat |-> ChatId(f.dest), mid |-> NextMsgId, user |-> u])
          ELSE admin_msgid_to_user
    /\ user_last_admin_msgid' =
          IF f.sent
          THEN Append(user_last_admin_msgid, [user |-> u, mid |-> NextMsgId])
          ELSE user_last_admin_msgid
    /\ relays' = [relays EXCEPT ![r].pc = "reply",
                                ![r].calls = f.calls,
                                ![r].attempts = f.attempts,
                                ![r].exc = f.exc,
                                ![r].out = IF f.sent THEN "sent" ELSE "failed"]

\* message_relay_handler, user path (720-723): a message of user u that has
\* a text or not, to be answered by the provider by `mode`
relay_user(r, u, text, mode) ==
    /\ RelayIsNext(r)
    /\ relays' = [relays EXCEPT ![r] =
          IF db_is_banned_cached(u)
          THEN [NoRelay EXCEPT !.kind = "user", !.sender = u, !.text = text,
                               !.mode = mode, !.pc = "reply", !.out = "banned"]
          ELSE [NoRelay EXCEPT !.kind = "user", !.sender = u, !.text = text,
                               !.mode = mode, !.pc = "isb"]]
    /\ UNCHANGED << reg, numeric_admin_ids, now, bucket, corr >>

\* a helper called by message_relay_handler raised: db_is_banned (721) and
\* db_save_message of the user path (729) are outside try and the exception
\* leaves the handler; db_save_message of the admin path (709) is inside
\* the try of 706-715, whose except clause answers the failure with no copy
\* tried
SaveRaised(r) ==
    IF relays[r].kind = "admin" /\ relays[r].pc = "save"
    THEN [relays EXCEPT ![r].pc = "reply",
                        ![r].exc = "OperationalError",
                        ![r].out = "failed"]
    ELSE [relays EXCEPT ![r].pc = "raise",
                        ![r].exc = "OperationalError",
                        ![r].out = "error"]

\* the worker thread runs _db_is_banned_sync for the relay
relay_db_call(r) ==
    /\ relays[r].pc = "isb"
    /\ relays' = IF HasTable("banned")
                 THEN [relays EXCEPT ![r].pc = "isb_ret",
                                     ![r].val = db_is_banned_sync(db_banned, relays[r].sender)]
                 ELSE SaveRaised(r)
    /\ dbFailed' = IF HasTable("banned") THEN dbFailed ELSE dbFailed \cup {"relay"}
    /\ UNCHANGED << mem, db, lock, tasks, loader, banWindow, resolved, noticeFailed >>
    /\ UNCHANGED << numeric_admin_ids, now, bucket, corr >>

\* the exception of db_is_banned (721) or db_save_message (729) leaves the
\* handler
relay_unwind(r) ==
    /\ relays[r].pc = "raise"
    /\ ~LoaderWoken
    /\ relays' = [relays EXCEPT ![r] = RelayDone]
    /\ UNCHANGED << reg, numeric_admin_ids, now, bucket, corr >>

\* 721-762 after db_is_banned returned
relay_route(r) ==
    /\ relays[r].pc = "isb_ret"
    /\ ~LoaderWoken
    /\ LET u == relays[r].sender IN
       IF relays[r].val
       THEN /\ relays' = [relays EXCEPT ![r].pc = "reply", ![r].out = "banned", ![r].val = FALSE]
            /\ UNCHANGED << bucket, corr >>
       ELSE IF u \in active_sessions
       THEN IF relays[r].text
            THEN /\ relays' = [relays EXCEPT ![r].pc = "save"]
                 /\ UNCHANGED << bucket, corr >>
            ELSE Forward(r)
       ELSE IF u \in pending_requests
       THEN /\ relays' = [relays EXCEPT ![r].pc = "reply", ![r].out = "waiting"]
            /\ UNCHANGED << bucket, corr >>
       ELSE /\ relays' = [relays EXCEPT ![r].pc = "reply", ![r].out = "apply_first"]
            /\ UNCHANGED << bucket, corr >>
    /\ UNCHANGED << reg, numeric_admin_ids, now >>

Resolve(chat, mid) ==
    { e.user : e \in { x \in { admin_msgid_to_user[i] : i \in DOMAIN admin_msgid_to_user } :
                          x.chat = chat /\ x.mid = mid } }

\* the admin path once the target user is resolved and the text saved
\* (710-715): one safe_copy to the user, the outcome is told to the operator
AdminForward(r, rec) ==
    \E c \in {safe_copy(bucket_tokens, bucket_last, now, rec.mode)} :
    LET u == rec.sender IN
    /\ bucket_tokens' = c.tokens
    /\ bucket_last' = c.last
    /\ user_last_admin_msgid' =
          IF c.delivered
          THEN Append(user_last_admin_msgid, [user |-> u, mid |-> NextMsgId])
          ELSE user_last_admin_msgid
    /\ UNCHANGED admin_msgid_to_user
    /\ relays' = [relays EXCEPT ![r] =
          [rec EXCEPT !.pc = "reply",
                      !.calls = 1,
                      !.attempts = c.attempts,
                      !.exc = c.exc,
                      !.out = IF c.delivered THEN "sent" ELSE "failed"]]

\* db_save_message returned (709, 729) and the copies are tried; or its
\* helper raised for want of table messages
relay_forward(r) ==
    /\ relays[r].pc = "save"
    /\ IF HasTable("messages")
       THEN /\ ~LoaderWoken
            /\ IF relays[r].kind = "user" THEN Forward(r) ELSE AdminForward(r, relays[r])
            /\ UNCHANGED dbFailed
       ELSE /\ relays' = SaveRaised(r)
            /\ dbFailed' = dbFailed \cup {"relay"}
            /\ UNCHANGED << bucket, corr >>
    /\ UNCHANGED << mem, db, lock, tasks, loader, banWindow, resolved, noticeFailed >>
    /\ UNCHANGED << numeric_admin_ids, now >>

\* message_relay_handler, admin path (700-718): an operator message that
\* replies to message mid of chat, or to nothing (mid = 0)
relay_admin(r, chat, mid, text, mode) ==
    /\ RelayIsNext(r)
    /\ IF mid # 0 /\ Resolve(chat, mid) # {}
       THEN LET rec == [NoRelay EXCEPT !.kind = "admin", !.text = text, !.mode = mode,
                                       !.chat = chat, !.reply = mid,
                                       !.sender = CHOOSE u \in Resolve(chat, mid) : TRUE] IN
            IF text
            THEN /\ relays' = [relays EXCEPT ![r] = [rec EXCEPT !.pc = "save"]]
                 /\ UNCHANGED << bucket, corr >>
            ELSE AdminForward(r, rec)
       ELSE /\ relays' = [relays EXCEPT ![r] =
                 [NoRelay EXCEPT !.kind = "admin", !.text = text, !.mode = mode,
                                 !.chat = chat, !.reply = mid,
                                 !.pc = "reply", !.out = "specify_target"]]
            /\ UNCHANGED << bucket, corr >>
    /\ UNCHANGED << reg, numeric_admin_ids, now >>

\* the handler's reply returns and the handler ends
relay_finish(r) ==
    /\ relays[r].pc = "reply"
    /\ ~LoaderWoken
    /\ relays' = [relays EXCEPT ![r] = RelayDone]
    /\ UNCHANGED << reg, numeric_admin_ids, now, bucket, corr >>

\* time passes
Tick ==
    /\ now < MaxTime
    /\ now' = now + 1
    /\ UNCHANGED << reg, numeric_admin_ids, bucket, corr, relays >>

\* ------------------------------------------------------------ initial state
\* the memory is empty (75-77); state.db holds what an earlier run left:
\* no table on a first start, the first tables of 91-94 after a run that was
\* stopped inside _init_db_sync, else all of them; nothing relates the rows
\* of the tables that exist
InitDb ==
    /\ db_tables \in 0..Len(TABLES)
    /\ db_banned \in (IF HasTable("banned") THEN SUBSET Users ELSE {{}})
    /\ db_pending \in (IF HasTable("pending") THEN SUBSET Users ELSE {{}})
    /\ db_active \in (IF HasTable("active") THEN SUBSET Users ELSE {{}})

\* 67-69, 84-85: empty correlation table, full bucket stamped at import
InitFwdVars ==
    /\ now = 0
    /\ bucket_tokens = COPY_BUCKET_CAPACITY
    /\ bucket_last = 0
    /\ admin_msgid_to_user = << >>
    /\ user_last_admin_msgid = << >>
    /\ relays = [r \in RelayIds |-> NoRelay]

\* 72: the operators known by id at import
InitAdmins == numeric_admin_ids = ADMIN_IDS

\* the same once startup_tasks is over: the user name was resolved or not
SettledAdmins == numeric_admin_ids \in {ADMIN_IDS, ADMIN_IDS \cup {NamedAdminId}}

Init ==
    /\ pending_requests = {}
    /\ active_sessions = {}
    /\ banned_users_cache = {}
    /\ InitDb
    /\ state_lock = 0
    /\ lock_waiters = << >>
    /\ tasks = [t \in TaskIds |-> Idle]
    /\ loader = [pc |-> "init_db", pend |-> {}, act |-> {}]
    /\ banWindow = [u \in Users |-> FALSE]
    /\ resolved = [u \in Users |-> 0]
    /\ dbFailed = {}
    /\ noticeFailed = {}
    /\ InitFwdVars
    /\ InitAdmins

Next ==
    \/ \E t \in TaskIds, u \in Users : user_apply(t, u)
    \/ \E t \in TaskIds, u \in Users : user_cancel(t, u)
    \/ \E t \in TaskIds, u \in Users : user_end(t, u)
    \/ \E t \in TaskIds, u \in Users : end_cmd(t, u)
    \/ \E t \in TaskIds, u \in Users : admin_accept(t, u)
    \/ \E t \in TaskIds, u \in Users : admin_reject(t, u)
    \/ \E t \in TaskIds, u \in Users : connect_cmd(t, u)
    \/ \E t \in TaskIds, u \in Users : ban_cmd(t, u)
    \/ \E t \in TaskIds, u \in Users : unban_cmd(t, u)
    \/ \E t \in TaskIds : list_cmd(t)
    \/ \E t \in TaskIds, args \in BOOLEAN : broadcast_cmd(t, args)
    \/ \E t \in TaskIds, c \in Callers : register_admin_cmd(t, c)
    \/ \E t \in TaskIds : DbCall(t)
    \/ \E t \in TaskIds : Unwind(t)
    \/ \E t \in TaskIds : db_is_banned(t)
    \/ \E t \in TaskIds : db_ban(t)
    \/ \E t \in TaskIds : db_unban(t)
    \/ \E t \in TaskIds : LockGranted(t)
    \/ \E t \in TaskIds : Finish(t)
    \/ \E t \in TaskIds : Notify(t, TRUE)
    \/ init_db
    \/ load_get_pending
    \/ load_get_active
    \/ load_state_from_db(TRUE)
    \/ load_lock_granted(TRUE)
    \/ \E ok \in BOOLEAN : resolve_admin_usernames_to_ids(ok)

Spec == Init /\ [][Next]_vars

\* ------------------------------------------- persistence calls that raise
\* the sync helper raises in the worker thread for a reason of its own
\* (sqlite3.connect or execute fails); nothing is committed
DbFail(t) ==
    /\ tasks[t].pc \in DbPcs
    /\ tasks' = [tasks EXCEPT ![t].pc = "raise", ![t].out = "error", ![t].val = FALSE]
    /\ dbFailed' = dbFailed \cup {"handler"}
    /\ UNCHANGED << mem, db, lock, loader, banWindow, resolved, noticeFailed >>
    /\ UNCHANGED fwd

\* the same for a helper called by message_relay_handler (721, 709, 729)
relay_db_fail(r) ==
    /\ relays[r].pc \in {"isb", "save"}
    /\ relays' = SaveRaised(r)
    /\ dbFailed' = dbFailed \cup {"relay"}
    /\ UNCHANGED << mem, db, lock, tasks, loader, banWindow, resolved, noticeFailed >>
    /\ UNCHANGED << numeric_admin_ids, now, bucket, corr >>

\* the same for a helper called by the startup task: _init_db_sync (799),
\* _db_get_all_pending_sync (777), _db_get_all_active_sync (778).  Nothing
\* catches the exception: startup_tasks ends with it, nothing is loaded and
\* no user name is resolved
load_fail ==
    /\ loader.pc \in {"init_db", "get_pending", "get_active"}
    /\ loader' = [pc |-> "done", pend |-> {}, act |-> {}]
    /\ dbFailed' = dbFailed \cup {"startup"}
    /\ UNCHANGED << mem, db, lock, tasks, banWindow, resolved, noticeFailed >>
    /\ UNCHANGED fwd

\* Next with helpers that may raise, and with the messages of users, whose
\* handler calls db_is_banned (721) and db_save_message (729) outside try
NextFail ==
    \/ Next
    \/ \E t \in TaskIds : DbFail(t)
    \/ \E r \in RelayIds, u \in Users, text \in BOOLEAN : relay_user(r, u, text, "ok")
    \/ \E r \in RelayIds : relay_db_call(r)
    \/ \E r \in RelayIds : relay_route(r)
    \/ \E r \in RelayIds : relay_forward(r)
    \/ \E r \in RelayIds : relay_finish(r)
    \/ \E r \in RelayIds : relay_unwind(r)
    \/ \E r \in RelayIds : relay_db_fail(r)
    \/ load_fail
    \/ load_state_from_db(FALSE)
    \/ load_lock_granted(FALSE)

SpecFail == Init /\ [][NextFail]_vars

\* the handlers that read or write the ban set, and the startup load, with
\* at most MaxBanOps handler invocations (the other slots are never used)
MaxBanOps == 2

InitBan ==
    /\ pending_requests = {}
    /\ active_sessions = {}
    /\ banned_users_cache = {}
    /\ InitDb
    /\ state_lock = 0
    /\ lock_waiters = << >>
    /\ tasks = [t \in TaskIds |-> IF t <= MaxBanOps THEN Idle ELSE Done]
    /\ loader = [pc |-> "init_db", pend |-> {}, act |-> {}]
    /\ banWindow = [u \in Users |-> FALSE]
    /\ resolved = [u \in Users |-> 0]
    /\ dbFailed = {}
    /\ noticeFailed = {}
    /\ InitFwdVars
    /\ InitAdmins

NextBan ==
    \/ \E t \in TaskIds, u \in Users : user_apply(t, u)
    \/ \E t \in TaskIds, u \in Users : ban_cmd(t, u)
    \/ \E t \in TaskIds, u \in Users : unban_cmd(t, u)
    \/ \E t \in TaskIds : DbCall(t)
    \/ \E t \in TaskIds : Unwind(t)
    \/ \E t \in TaskIds : db_is_banned(t)
    \/ \E t \in TaskIds : db_ban(t)
    \/ \E t \in TaskIds : db_unban(t)
    \/ \E t \in TaskIds : Finish(t)
    \/ \E t \in TaskIds : Notify(t, TRUE)
    \/ init_db
    \/ load_get_pending
    \/ load_get_active
    \/ load_state_from_db(TRUE)
    \/ load_lock_granted(TRUE)
    \/ \E ok \in BOOLEAN : resolve_admin_usernames_to_ids(ok)

SpecBan == InitBan /\ [][NextBan]_vars

\* the lifecycle handlers from a settled registry (the startup load is over,
\* memory and tables agree), with at most MaxRegOps handler invocations and
\* with notices that may fail to be delivered
MaxRegOps == 2

InitReg ==
    /\ InitDb
    /\ db_tables = Len(TABLES)
    /\ pending_requests = db_pending
    /\ active_sessions = db_active
    /\ banned_users_cache = db_banned
    /\ state_lock = 0
    /\ lock_waiters = << >>
    /\ tasks = [t \in TaskIds |-> IF t <= MaxRegOps THEN Idle ELSE Done]
    /\ loader = [pc |-> "done", pend |-> {}, act |-> {}]
    /\ banWindow = [u \in Users |-> FALSE]
    /\ resolved = [u \in Users |-> 0]
    /\ dbFailed = {}
    /\ noticeFailed = {}
    /\ InitFwdVars
    /\ SettledAdmins

NextReg ==
    \/ \E t \in TaskIds, u \in Users : user_apply(t, u)
    \/ \E t \in TaskIds, u \in Users : user_cancel(t, u)
    \/ \E t \in TaskIds, u \in Users : user_end(t, u)
    \/ \E t \in TaskIds, u \in Users : end_cmd(t, u)
    \/ \E t \in TaskIds, u \in Users : admin_accept(t, u)
    \/ \E t \in TaskIds, u \in Users : admin_reject(t, u)
    \/ \E t \in TaskIds, u \in Users : connect_cmd(t, u)
    \/ \E t \in TaskIds, u \in Users : ban_cmd(t, u)
    \/ \E t \in TaskIds, u \in Users : unban_cmd(t, u)
    \/ \E t \in TaskIds : DbCall(t)
    \/ \E t \in TaskIds : db_is_banned(t)
    \/ \E t \in TaskIds : db_ban(t)
    \/ \E t \in TaskIds : db_unban(t)
    \/ \E t \in TaskIds : Finish(t)
    \/ \E t \in TaskIds, ok \in BOOLEAN : Notify(t, ok)

SpecReg == InitReg /\ [][NextReg]_vars

\* the relay of messages, from a settled registry: the startup load is
\* over, no lifecycle handler is running, memory and tables agree
InitFwd ==
    /\ InitDb
    /\ db_tables = Len(TABLES)
    /\ pending_requests = db_pending
    /\ active_sessions = db_active
    /\ banned_users_cache = db_banned
    /\ state_lock = 0
    /\ lock_waiters = << >>
    /\ tasks = [t \in TaskIds |-> Idle]
    /\ loader = [pc |-> "done", pend |-> {}, act |-> {}]
    /\ banWindow = [u \in Users |-> FALSE]
    /\ resolved = [u \in Users |-> 0]
    /\ dbFailed = {}
    /\ noticeFailed = {}
    /\ InitFwdVars
    /\ SettledAdmins

\* reply.chat.id (703): the chats in which an operator writes to the bot
AdminChats == ADMIN_IDS \cup {NamedAdminId}

NextFwd ==
    \/ \E r \in RelayIds, u \in Users, text \in BOOLEAN, m \in Modes : relay_user(r, u, text, m)
    \/ \E r \in RelayIds : relay_db_call(r)
    \/ \E r \in RelayIds : relay_route(r)
    \/ \E r \in RelayIds : relay_forward(r)
    \/ \E r \in RelayIds, c \in AdminChats, mid \in 0..MaxMsgs, text \in BOOLEAN, m \in Modes :
          relay_admin(r, c, mid, text, m)
    \/ \E r \in RelayIds : relay_finish(r)
    \/ \E t \in TaskIds, c \in Callers : register_admin_cmd(t, c)
    \/ \E t \in TaskIds : Finish(t)
    \/ Tick

SpecFwd == InitFwd /\ [][NextFwd]_vars

\* ================================================================ claims

\* C1: no user id is at once in the in-memory pending set and in the
\* in-memory active set, in any reachable state.
C1_MutualExclusion == pending_requests \cap active_sessions = {}

\* C2: a user_apply of u invoked after a Ban(u) completed, and with no
\* Unban(u) begun since, is answered Banned and does not add u to pending:
\* such a task is never found past its ban check with another status, nor
\* at the persistence call that follows the insertion into pending.
C2_BanOverridesApply ==
    \A t \in TaskIds :
        (tasks[t].op = "apply" /\ tasks[t].win /\ tasks[t].pc \notin {"isb", "isb_ret"})
            => (tasks[t].pc = "reply" /\ tasks[t].out = "Banned")

C2_Witness ==
    \E t \in TaskIds : /\ tasks[t].op = "apply"
                       /\ tasks[t].win
                       /\ tasks[t].pc = "reply"
                       /\ tasks[t].out = "Banned"
                       /\ banWindow[tasks[t].uid]

\* C3: whenever u is in the banned set (cache and table) and no Ban(u) is
\* in progress, u is in neither the pending set nor the active set.
BanRunning(u) == \E t \in TaskIds : tasks[t].op = "ban" /\ tasks[t].uid = u

C3_BanEvicts ==
    \A u \in Users :
        (u \in banned_users_cache /\ u \in db_banned /\ ~BanRunning(u))
            => (u \notin pending_requests /\ u \notin active_sessions)

\* C4: an accept adds u to the active set only if u is in the pending set
\* at the instant of the move; the membership test and the move are one
\* step of the handler, so that nothing takes effect between them; and an
\* accept of a user who is not pending answers NotPending and changes no
\* set, in memory or durable.
AcceptMoves(t) == /\ tasks'[t].op = "accept"
                  /\ tasks'[t].pc = "db_remove_pending"
                  /\ tasks[t].pc # "db_remove_pending"

AcceptStarts(t) == tasks[t].pc = "idle" /\ tasks'[t].op = "accept"

C4_AcceptAtomic ==
    [][\A t \in TaskIds :
          /\ AcceptMoves(t) => tasks'[t].uid \in pending_requests
          /\ AcceptStarts(t) =>
                LET u == tasks'[t].uid IN
                IF u \in pending_requests
                THEN /\ pending_requests' = pending_requests \ {u}
                     /\ active_sessions' = active_sessions \cup {u}
                     /\ tasks'[t].pc = "db_remove_pending"
                     /\ UNCHANGED << banned_users_cache, db >>
                ELSE /\ tasks'[t].pc = "reply"
                     /\ tasks'[t].out = "NotPending"
                     /\ UNCHANGED << mem, db >>]_vars

\* an accept has moved u on a first start, while init_db has not yet
\* created table pending: u was pending in memory only
C4_Witness ==
    \E t \in TaskIds : /\ tasks[t].op = "accept"
                       /\ tasks[t].pc = "db_remove_pending"
                       /\ tasks[t].uid \in active_sessions \ pending_requests
                       /\ loader.pc = "init_db"
                       /\ ~HasTable("pending")

\* C5: for one pending request of u, at most one of the accept, reject and
\* cancel operations issued against it succeeds; and a request that is
\* reported Rejected or Canceled does not leave u in the active set.
C5_OneDecision ==
    /\ \A u \in Users : resolved[u] <= 1
    /\ \A t \in TaskIds :
          (tasks[t].op \in {"reject", "cancel"} /\ tasks[t].out \in {"Rejected", "Canceled"})
              => tasks[t].uid \notin active_sessions

\* C6: when no operation is in progress, the startup load is over and no
\* persistence call has failed, the in-memory pending, active and banned
\* sets equal the durable ones.
Quiescent == /\ \A t \in TaskIds : ~Running(t)
             /\ loader.pc = "done"
             /\ dbFailed = {}

C6_WriteThrough ==
    Quiescent => /\ pending_requests = db_pending
                 /\ active_sessions = db_active
                 /\ banned_users_cache = db_banned

\* C7: when a persistence call of a mutating operation fails, the in-memory
\* pending and active sets equal the durable ones (nothing was applied in
\* part).  Stated for an operation that runs alone after the startup load.
C7_NoPartialApplication ==
    (/\ loader.pc = "done"
     /\ "startup" \notin dbFailed
     /\ tasks[1].pc = "raise"
     /\ \A t \in TaskIds : t # 1 => tasks[t].pc = "idle")
        => /\ pending_requests = db_pending
           /\ active_sessions = db_active

\* C9: a safe_copy whose destination answers every delivery attempt by a
\* throttle error makes exactly `retries` provider delivery attempts and then
\* raises to its caller.  Stated on the user path, where safe_copy is called
\* once per destination.
C9_RetryBound ==
    \A r \in RelayIds :
        (relays[r].kind = "user" /\ relays[r].mode = "throttle" /\ relays[r].calls > 0)
            => /\ relays[r].attempts = relays[r].calls * Retries
               /\ relays[r].out = "failed"

\* C11: no call of safe_copy ends in failure without at least one provider
\* delivery attempt: a relay whose every safe_copy call failed has made at
\* least one provider call per safe_copy call.
C11_NeverDropped ==
    \A r \in RelayIds :
        (relays[r].calls > 0 /\ relays[r].out = "failed")
            => relays[r].attempts >= relays[r].calls

\* C15: an apply, cancel or end event of a user who is in the banned set (a
\* Ban(u) completed, no Unban(u) began since, u is in the cache and in the
\* table) is answered with the banned notice and changes no set.
BannedEvent(t) == /\ tasks[t].pc = "idle"
                  /\ tasks'[t].op \in {"apply", "cancel", "uend"}
                  /\ banWindow[tasks'[t].uid]
                  /\ tasks'[t].uid \in banned_users_cache
                  /\ tasks'[t].uid \in db_banned

C15_BannedUserRejected ==
    [][\A t \in TaskIds : BannedEvent(t) =>
          /\ tasks'[t].pc = "reply"
          /\ tasks'[t].out = "Banned"
          /\ UNCHANGED << mem, db >>]_vars

\* C16: a user_cancel whose locked section finds u not pending answers
\* NotPending and changes no set, in memory or durable; one that finds u
\* pending removes u from pending and answers Canceled once the row is
\* deleted; and once a request of u has been decided u is not pending, so
\* the cancel that follows a Canceled answers NotPending.
CancelDecides(t) == /\ tasks'[t].op = "cancel"
                    /\ tasks[t].pc \in {"idle", "wait_lock"}
                    /\ tasks'[t].pc # "wait_lock"

CancelPersists(t) == /\ tasks[t].op = "cancel"
                     /\ tasks[t].pc = "db_remove_pending"
                     /\ tasks'[t].pc # "db_remove_pending"

C16_CancelIdempotent ==
    /\ [](\A u \in Users : resolved[u] >= 1 => u \notin pending_requests)
    /\ [][\A t \in TaskIds :
             /\ CancelDecides(t) =>
                   LET u == tasks'[t].uid IN
                   IF u \in pending_requests
                   THEN /\ pending_requests' = pending_requests \ {u}
                        /\ tasks'[t].pc = "db_remove_pending"
                        /\ UNCHANGED << active_sessions, banned_users_cache, db >>
                   ELSE /\ tasks'[t].pc = "reply"
                        /\ tasks'[t].out = "NotPending"
                        /\ UNCHANGED << mem, db >>
             /\ CancelPersists(t) =>
                   /\ tasks'[t].out = "Canceled"
                   /\ tasks'[t].uid \notin db_pending'
                   /\ UNCHANGED mem]_vars

C16_Witness ==
    \E t \in TaskIds : /\ tasks[t].op = "cancel"
                       /\ tasks[t].pc = "reply"
                       /\ tasks[t].out = "NotPending"
                       /\ resolved[tasks[t].uid] = 1
                       /\ << "cancel", tasks[t].uid >> \in noticeFailed

\* C17: a user_apply of a user found banned answers Banned and changes no
\* set.  Its locked section tests membership and inserts in one step: for u
\* active or pending it answers AlreadyActive or AlreadyPending and changes
\* no set, else it adds u to the pending set; the persistence call that
\* follows adds u to the durable pending set and the answer is Accepted.
\* The operators are notified after Accepted, and after no other answer.
ApplyStarts(t) == tasks[t].pc = "idle" /\ tasks'[t].op = "apply"

ApplyBanChecked(t) == /\ tasks[t].op = "apply"
                      /\ tasks[t].pc = "isb_ret"
                      /\ tasks'[t].pc # "isb_ret"

ApplyDecides(t) == /\ tasks[t].op = "apply"
                   /\ \/ tasks[t].pc = "isb_ret" /\ ~tasks[t].val
                      \/ tasks[t].pc = "wait_lock"
                   /\ tasks'[t].pc \notin {"isb_ret", "wait_lock"}

ApplyPersists(t) == /\ tasks[t].op = "apply"
                    /\ tasks[t].pc = "db_add_pending"
                    /\ tasks'[t].pc # "db_add_pending"

ApplyEnds(t) == tasks[t].op = "apply" /\ tasks'[t] = Done

C17_RequestContact ==
    [][\A t \in TaskIds :
          LET u == IF tasks[t].pc = "idle" THEN tasks'[t].uid ELSE tasks[t].uid IN
          /\ (ApplyStarts(t) /\ u \in banned_users_cache) =>
                /\ tasks'[t].pc = "reply"
                /\ tasks'[t].out = "Banned"
                /\ UNCHANGED << mem, db >>
          /\ (ApplyBanChecked(t) /\ tasks[t].val) =>
                /\ tasks'[t].pc = "reply"
                /\ tasks'[t].out = "Banned"
                /\ UNCHANGED << mem, db >>
          /\ ApplyDecides(t) =>
                IF u \in active_sessions
                THEN tasks'[t].out = "AlreadyActive" /\ UNCHANGED << mem, db >>
                ELSE IF u \in pending_requests
                THEN tasks'[t].out = "AlreadyPending" /\ UNCHANGED << mem, db >>
                ELSE /\ pending_requests' = pending_requests \cup {u}
                     /\ tasks'[t].pc = "db_add_pending"
                     /\ UNCHANGED << active_sessions, banned_users_cache, db >>
          /\ ApplyPersists(t) =>
                /\ db_pending' = db_pending \cup {u}
                /\ tasks'[t].out = "Accepted"
                /\ UNCHANGED mem
          /\ ApplyEnds(t) =>
                IF tasks[t].out = "Accepted"
                THEN Notify(t, TRUE) \/ Notify(t, FALSE)
                ELSE Finish(t)]_vars

C17_Witness ==
    \E t \in TaskIds : /\ tasks[t].op = "apply"
                       /\ tasks[t].pc = "reply"
                       /\ tasks[t].out = "Accepted"
                       /\ tasks[t].uid \in pending_requests
                       /\ tasks[t].uid \in db_pending

\* C18: a connect_cmd that has answered Connected has u in the active set
\* and not in the pending set, in memory and in the tables, for as long as
\* the handler runs.
Connected(t) == tasks[t].op = "connect" /\ tasks[t].out = "Connected"

C18_Connect ==
    \A t \in TaskIds : Connected(t) =>
        /\ tasks[t].uid \in active_sessions \cap db_active
        /\ tasks[t].uid \notin pending_requests \cup db_pending

\* C19: when an accept or reject takes effect on a user who is not pending,
\* or an operator's end on a user who is not active, the handler answers
\* NotPending or NotActive, sends no notice and changes no set, in memory
\* or durable.
TakesEffect(t) == /\ tasks'[t].op \in {"accept", "reject", "end"}
                  /\ tasks[t].pc \in {"idle", "wait_lock"}
                  /\ tasks'[t].pc # "wait_lock"

C19_StateConflictIsStatus ==
    [][\A t \in TaskIds : TakesEffect(t) =>
          LET o == tasks'[t].op
              u == tasks'[t].uid IN
          /\ (o \in {"accept", "reject"} /\ u \notin pending_requests) =>
                /\ tasks'[t].out = "NotPending"
                /\ ~Notices(o, tasks'[t].out)
                /\ UNCHANGED << mem, db >>
          /\ (o = "end" /\ u \notin active_sessions) =>
                /\ tasks'[t].out = "NotActive"
                /\ ~Notices(o, tasks'[t].out)
                /\ UNCHANGED << mem, db >>]_vars

\* an accept of a user who is active and not pending
C19_Witness ==
    \E t \in TaskIds : /\ tasks[t].op = "accept"
                       /\ tasks[t].pc = "reply"
                       /\ tasks[t].out = "NotPending"
                       /\ tasks[t].uid \in active_sessions \cap db_active
                       /\ tasks[t].uid \notin pending_requests \cup db_pending

\* C20: when the notices of a handler cannot be delivered, the handler still
\* ends, and the step leaves the in-memory and the durable sets as the
\* transition made them; no handler is left with an exception.
C20_NoticeFailureIsSoft ==
    /\ [](\A t \in TaskIds : tasks[t].pc # "raise")
    /\ [][\A t \in TaskIds : Notify(t, FALSE) =>
             /\ tasks'[t] = Done
             /\ UNCHANGED << mem, db >>]_vars

C20_Witness ==
    \E u \in Users : /\ << "accept", u >> \in noticeFailed
                     /\ u \in active_sessions \cap db_active
                     /\ u \notin pending_requests \cup db_pending
                     /\ \A t \in TaskIds : ~Running(t)

\* C22: a call of acquire_copy_token that finds tokens > 0 at its first poll
\* (after the refill) takes exactly one token and returns True: the handler
\* step that makes the first safe_copy call of a relay leaves the bucket
\* below its refilled count, and the call does not end with an exception of
\* acquire_copy_token.
Acquires(r) == relays[r].calls = 0 /\ relays'[r].calls > 0

C22_AcquireTakesOne ==
    [][\A r \in RelayIds : Acquires(r) =>
          LET b == refill_bucket(bucket_tokens, bucket_last, now) IN
          b[1] > 0 => /\ bucket_tokens' < b[1]
                      /\ relays'[r].exc # "UnboundLocalError"]_vars

\* C24: _refill_bucket moves _bucket_last only in a call that adds at least
\* one whole token; a call that adds none (too little time elapsed, or the
\* bucket already at capacity) leaves _bucket_last and the token count as
\* they were.  Checked on the refill that opens the first acquire of a relay.
C24_RefillKeepsLast ==
    [][\A r \in RelayIds : Acquires(r) =>
          LET b == refill_bucket(bucket_tokens, bucket_last, now) IN
          /\ b[2] # bucket_last => b[1] >= bucket_tokens + 1
          /\ bucket_last' # bucket_last => b[1] >= bucket_tokens + 1]_vars

\* ------------------------------------------------ callers other than operators
\* The operator buttons of callback_query_handler (admin_accept 602-625,
\* admin_reject 627-644, admin_end 646-663, admin_ban 665-682) never look at
\* query.from_user: pressed by a party that is no operator they run the same
\* code as for an operator.
AdminCallbacks == {"accept", "reject", "end", "ban"}

callback_by_other(t, u, o) ==
    CASE o = "accept" -> admin_accept(t, u)
      [] o = "reject" -> admin_reject(t, u)
      [] o = "end"    -> end_cmd(t, u)
      [] o = "ban"    -> ban_cmd(t, u)
      [] OTHER        -> FALSE

\* /connect, /end, /ban, /unban, /list, /broadcast sent by a party for
\* which is_admin_update (270-276) is false: the handler returns at its first statement
command_by_other(t) ==
    /\ IsNext(t)
    /\ tasks' = [tasks EXCEPT ![t] = Done]
    /\ UNCHANGED << mem, db, lock, loader, hist >>
    /\ UNCHANGED fwd

NextCaller ==
    \/ Next
    \/ \E t \in TaskIds, u \in Users, o \in AdminCallbacks : callback_by_other(t, u, o)
    \/ \E t \in TaskIds : command_by_other(t)

SpecCaller == Init /\ [][NextCaller]_vars

\* C25: an accept, reject, end, ban, unban or connect invoked by a party that
\* is no operator, by command or by button, leaves the pending, active and
\* banned sets (in memory and stored) as they were in the step that serves it.
C25_OnlyOperators ==
    [][\A t \in TaskIds, u \in Users :
          (\/ command_by_other(t)
           \/ \E o \in AdminCallbacks : callback_by_other(t, u, o))
          => UNCHANGED << mem, db >>]_vars

====
